---- MODULE Spec2Model ----
(***************************************************************************)
(* A model of the two scripts of the repository.                           *)
(*                                                                         *)
(*   ML/mnist/many-classifiers/python.py  main, analyze, print_website     *)
(*   ML/gtsdb/train.py                    the module-level training script *)
(*                                                                         *)
(* Numbers: a duration is a whole number of milliseconds, an accuracy is   *)
(* an exact fraction [num, den] (den = 0 is NaN), a training metric is a   *)
(* whole number of 1e-5 units and a "%0.4f" string is the whole number of  *)
(* 1e-4 units it spells.                                                   *)
(***************************************************************************)
EXTENDS Integers, Sequences, FiniteSets

VARIABLES
    \* ---- python.py (digit classifiers)
    pc,               \* position of main / analyze
    data,             \* the dict returned by get_data(): data.test.X, data.test.y
    speed,            \* how slow the machine is (scales every duration)
    clock,            \* time.time(), in ms
    clf_i,            \* index of the loop of main over `classifiers`
    fitted,           \* the classifiers whose fit() has returned
    t0, t1,           \* main's t0, t1
    a_t0,             \* analyze's t0
    a_i,              \* analyze's loop variable i
    predicted,        \* analyze's `predicted`
    results,          \* analyze's `results`
    classifier_data,  \* main's classifier_data
    stdout,           \* what has been printed
    calls,            \* history: the calls made so far, in order
    \* ---- print_website on its own
    web_data,         \* the argument of print_website
    \* ---- train.py
    tpc,              \* position in the script
    seed,             \* which course the training takes
    heap,             \* the numpy arrays: heap[ref] is the array object ref
    x_loaded,         \* data['x_train'] (a ref)
    X_train, X_val,   \* refs (0: not bound yet)
    y_train, y_val,   \* label vectors
    Y_train, Y_val,   \* one-hot label matrices
    model,            \* the model: the number of epochs it was trained for
    fit_args,         \* the arguments of the running fit / fit_generator call
    epoch,            \* epochs finished by the running fit call
    cb_best,          \* ModelCheckpoint.best (-1: -Inf)
    history,          \* History.history
    files,            \* the files written: <<>> absent, <<content>> present
    writes            \* history: the names of the files written, in order

mvars == <<pc, data, speed, clock, clf_i, fitted, t0, t1, a_t0, a_i, predicted,
           results, classifier_data, stdout, calls>>
wvars == <<web_data>>
tvars == <<tpc, seed, heap, x_loaded, X_train, X_val, y_train, y_val, Y_train,
           Y_val, model, fit_args, epoch, cb_best, history, files, writes>>
vars == <<mvars, wvars, tvars>>

-----------------------------------------------------------------------------
(* Bounds *)

\* the longest test set analyze() is run on
MaxTestLen == 260
\* the machine speeds
MaxSlowdown == 2
\* the largest dict print_website is run on
MaxKeys == 2
\* the largest training set train.py is run on
MaxImages == 2
\* the number of training courses
MaxSeed == 3

-----------------------------------------------------------------------------
(* Helpers *)

Min(a, b) == IF a < b THEN a ELSE b

\* a slice that takes one row too many
Slice_overlapping(s, lo, hi) == SubSeq(s, lo + 1, Min(hi + 1, Len(s)))

\* Python's s[lo:hi] for 0 <= lo <= hi (0-based, hi clamped to len(s))
Slice(s, lo, hi) == SubSeq(s, lo + 1, Min(hi, Len(s)))

\* an exact fraction; den = 0 stands for NaN
Frac(num, den) == [num |-> num, den |-> den]

\* r < a/b as floats compare: every comparison with NaN is false
FracLess(r, a, b) == r.den # 0 /\ r.num * b < a * r.den

-----------------------------------------------------------------------------
(* python.py: the classifiers of main *)

classifiers ==
    << "NN 500:200", "NN 500:200 dropout", "CNN", "adj. SVM", "linear SVM",
       "k nn", "Decision Tree", "Random Forest", "Random Forest 2", "AdaBoost",
       "Naive Bayes", "Gradient Boosting" >>

ClfNames == {classifiers[k] : k \in 1..Len(classifiers)}

\* the code points of a classifier name (what Python's str comparison reads)
CodePoints(name) ==
    CASE name = "NN 500:200" -> <<78, 78, 32, 53, 48, 48, 58, 50, 48, 48>>
      [] name = "NN 500:200 dropout" ->
            <<78, 78, 32, 53, 48, 48, 58, 50, 48, 48, 32, 100, 114, 111, 112, 111, 117, 116>>
      [] name = "CNN" -> <<67, 78, 78>>
      [] name = "adj. SVM" -> <<97, 100, 106, 46, 32, 83, 86, 77>>
      [] name = "linear SVM" -> <<108, 105, 110, 101, 97, 114, 32, 83, 86, 77>>
      [] name = "k nn" -> <<107, 32, 110, 110>>
      [] name = "Decision Tree" -> <<68, 101, 99, 105, 115, 105, 111, 110, 32, 84, 114, 101, 101>>
      [] name = "Random Forest" -> <<82, 97, 110, 100, 111, 109, 32, 70, 111, 114, 101, 115, 116>>
      [] name = "Random Forest 2" ->
            <<82, 97, 110, 100, 111, 109, 32, 70, 111, 114, 101, 115, 116, 32, 50>>
      [] name = "AdaBoost" -> <<65, 100, 97, 66, 111, 111, 115, 116>>
      [] name = "Naive Bayes" -> <<78, 97, 105, 118, 101, 32, 66, 97, 121, 101, 115>>
      [] name = "Gradient Boosting" ->
            <<71, 114, 97, 100, 105, 101, 110, 116, 32, 66, 111, 111, 115, 116, 105, 110, 103>>

\* the number of classes of the digit data set
n_classes == 10

\* the size of the chunks analyze() predicts in
ChunkSize == 128

-----------------------------------------------------------------------------
(* python.py: the data set and the library calls *)

\* the true label of test example x (examples are named by their number)
TrueLabel(x) == (x * 7) % n_classes

\* get_data() for a test set of n examples: example k (0-based) is at X[k]
get_data(n) ==
    [test |-> [X |-> [k \in 1..n |-> k - 1],
               y |-> [k \in 1..n |-> TrueLabel(k - 1)]]]

\* the label classifier number c gives example x once fitted: classifier c is
\* wrong on every (c+1)-th example
PredictOne(c, x) ==
    IF x % (c + 1) = 0 THEN (TrueLabel(x) + 1) % n_classes ELSE TrueLabel(x)

\* clf.predict(chunk): one label per row of the chunk, in order
Predict(c, chunk) == [k \in 1..Len(chunk) |-> PredictOne(c, chunk[k])]

\* how long clf.fit and clf.predict take, in ms
FitCost(c) == 700 * c * speed
PredictCost(c, len) == 2 * c * len * speed

\* np.append(a, b): the flattened concatenation
np_append(a, b) == a \o b

\* sklearn.metrics.accuracy_score(y, p): the fraction of equal entries
accuracy_score(y, p) ==
    Frac(Cardinality({k \in 1..Len(y) : y[k] = p[k]}), Len(y))

\* sklearn.metrics.confusion_matrix(y, p): counts by (true, predicted) label
confusion_matrix(y, p) ==
    LET L == {y[k] : k \in 1..Len(y)} \cup {p[k] : k \in 1..Len(p)}
    IN  [tp \in L \X L |->
            Cardinality({k \in 1..Len(y) : y[k] = tp[1] /\ p[k] = tp[2]})]

-----------------------------------------------------------------------------
(* python.py: print_website *)

\* Python's a < b on two strings: by code point, a proper prefix first
StrLess(a, b) ==
    LET ca == CodePoints(a)
        cb == CodePoints(b)
    IN  \/ \E k \in 1..Min(Len(ca), Len(cb)) :
              ca[k] < cb[k] /\ \A j \in 1..(k - 1) : ca[j] = cb[j]
        \/ Len(ca) < Len(cb) /\ \A j \in 1..Len(ca) : ca[j] = cb[j]

\* the keys of sorted(data.items()): the keys are distinct, so the items are
\* ordered by key alone
RECURSIVE sorted(_)
sorted(keys) ==
    IF keys = {} THEN <<>>
    ELSE LET m == CHOOSE x \in keys : \A z \in keys \ {x} : StrLess(x, z)
         IN  <<m>> \o sorted(keys \ {m})

danger_msg == "class=\"danger\""

\* one print() call: what kind of line, the attribute in it, the value in it
Line(kind, attr, value) == [kind |-> kind, attr |-> attr, value |-> value]

\* the messages are not reset at the start of the iteration
RowMsgs_not_reset(clf_data, acc_msg, test_msg) ==
    [acc_msg |-> IF FracLess(clf_data.accuracy, 9, 10) THEN danger_msg ELSE acc_msg,
     test_msg |-> IF clf_data.testing_time > 5000 THEN danger_msg ELSE test_msg]

\* the body of the loop of print_website for one item; acc_msg and test_msg are
\* locals of the function, so an iteration starts with the previous values
RowMsgs(clf_data, acc_msg, test_msg) ==
    LET acc0 == ""
        test0 == ""
        acc1 == IF FracLess(clf_data.accuracy, 9, 10) THEN danger_msg ELSE acc0
        test1 == IF clf_data.testing_time > 5000 THEN danger_msg ELSE test0
    IN  [acc_msg |-> acc1, test_msg |-> test1]

RowLines(clf_name, clf_data, msgs) ==
    << Line("<tr>", "", ""),
       Line("td_name", "", clf_name),
       Line("td_accuracy", msgs.acc_msg, clf_data.accuracy),
       Line("td_training_time", "", clf_data.training_time),
       Line("td_testing_time", msgs.test_msg, clf_data.testing_time),
       Line("</tr>", "", "") >>

RECURSIVE PrintRows(_, _, _, _)
PrintRows(names, d, acc_msg, test_msg) ==
    IF names = <<>> THEN <<>>
    ELSE LET clf_name == Head(names)
             msgs == RowMsgs(d[clf_name], acc_msg, test_msg)
         IN  RowLines(clf_name, d[clf_name], msgs)
                 \o PrintRows(Tail(names), d, msgs.acc_msg, msgs.test_msg)

\* everything print_website(d) prints
print_website(d) ==
    <<Line("<table><thead>", "", "")>>
        \o PrintRows(sorted(DOMAIN d), d, "", "")
        \o <<Line("</tbody>", "", ""), Line("</table>", "", "")>>

-----------------------------------------------------------------------------
(* python.py: main and analyze, step by step *)

Call(kind, c) == [kind |-> kind, clf |-> c, xs |-> <<>>]
CallPredict(c, chunk) == [kind |-> "predict", clf |-> c, xs |-> chunk]

TestX == data.test.X
TestY == data.test.y

\* the test-set lengths main is run on
MainTestLens == {0, 1, ChunkSize + 1}

InitWeb == web_data = [k \in {} |-> 0]

NoFiles == [checkpoint |-> <<>>, history_csv |-> <<>>, gtsdb_h5 |-> <<>>]
NoHistory == [loss |-> <<>>, acc |-> <<>>, val_acc |-> <<>>]
NoArgs == [x |-> 0, y |-> <<>>, val_x |-> 0, val_y |-> <<>>]

\* train.py has not started
InitTrainVars ==
    /\ heap = <<>>
    /\ x_loaded = 0 /\ X_train = 0 /\ X_val = 0
    /\ y_train = <<>> /\ y_val = <<>> /\ Y_train = <<>> /\ Y_val = <<>>
    /\ model = 0
    /\ fit_args = NoArgs
    /\ epoch = 0
    /\ cb_best = -1
    /\ history = NoHistory
    /\ files = NoFiles
    /\ writes = <<>>

InitOther == InitWeb /\ tpc = "off" /\ seed = 0 /\ InitTrainVars

InitMain ==
    /\ pc = "main"
    /\ data = [test |-> [X |-> <<>>, y |-> <<>>]]
    /\ speed \in 1..MaxSlowdown
    /\ clock = 0
    /\ clf_i = 0
    /\ fitted = {}
    /\ t0 = 0 /\ t1 = 0 /\ a_t0 = 0 /\ a_i = 0
    /\ predicted = <<>>
    /\ results = [k \in {} |-> 0]
    /\ classifier_data = [k \in {} |-> 0]
    /\ stdout = <<>>
    /\ calls = <<>>
    /\ InitOther

\* main, line 75: data = get_data()
GetData ==
    /\ pc = "main"
    /\ \E n \in MainTestLens : data' = get_data(n)
    /\ calls' = Append(calls, Call("get_data", 0))
    /\ clf_i' = 1
    /\ pc' = "loop"
    /\ UNCHANGED <<speed, clock, fitted, t0, t1, a_t0, a_i, predicted, results,
                   classifier_data, stdout, wvars, tvars>>

\* main, lines 113-119: the next classifier is fitted
Fit ==
    /\ pc = "loop"
    /\ clf_i <= Len(classifiers)
    /\ stdout' = stdout \o << Line("####", "", ""),
                              Line("Start fitting", "", classifiers[clf_i]) >>
    /\ t0' = clock
    /\ calls' = Append(calls, Call("fit", clf_i))
    /\ fitted' = fitted \cup {clf_i}
    /\ clock' = clock + FitCost(clf_i)
    /\ t1' = clock'
    /\ pc' = "analyze"
    /\ UNCHANGED <<data, speed, clf_i, a_t0, a_i, predicted, results,
                   classifier_data, wvars, tvars>>

\* main, line 118: clf.fit raises; nothing catches it
FitRaises ==
    /\ pc = "loop"
    /\ clf_i <= Len(classifiers)
    /\ stdout' = stdout \o << Line("####", "", ""),
                              Line("Start fitting", "", classifiers[clf_i]) >>
    /\ t0' = clock
    /\ calls' = calls \o <<Call("fit", clf_i), Call("raise", clf_i)>>
    /\ pc' = "raised"
    /\ UNCHANGED <<data, speed, clock, clf_i, fitted, t1, a_t0, a_i, predicted,
                   results, classifier_data, wvars, tvars>>

\* analyze, lines 183-188
AnalyzeStart ==
    /\ pc = "analyze"
    /\ calls' = Append(calls, Call("analyze", clf_i))
    /\ results' = [k \in {} |-> 0]
    /\ a_t0' = clock
    /\ predicted' = <<>>
    /\ a_i' = 0
    /\ pc' = "predict"
    /\ UNCHANGED <<data, speed, clock, clf_i, fitted, t0, t1, classifier_data,
                   stdout, wvars, tvars>>

\* analyze, lines 189-191: one turn of the loop over range(0, len(X), 128)
PredictChunk ==
    /\ pc = "predict"
    /\ a_i < Len(TestX)
    /\ clf_i \in fitted
    /\ LET chunk == Slice(TestX, a_i, a_i + ChunkSize)
           predicted_single == Predict(clf_i, chunk)
       IN  /\ calls' = Append(calls, CallPredict(clf_i, chunk))
           /\ clock' = clock + PredictCost(clf_i, Len(chunk))
           /\ predicted' = np_append(predicted, predicted_single)
    /\ a_i' = a_i + ChunkSize
    /\ UNCHANGED <<pc, data, speed, clf_i, fitted, t0, t1, a_t0, results,
                   classifier_data, stdout, wvars, tvars>>

\* the exception of clf.predict is caught and the loop of main goes on
PredictRaises_caught ==
    /\ pc = "predict"
    /\ a_i < Len(TestX)
    /\ calls' = calls \o <<CallPredict(clf_i, Slice(TestX, a_i, a_i + ChunkSize)),
                           Call("raise", clf_i)>>
    /\ clf_i' = clf_i + 1
    /\ pc' = "loop"
    /\ UNCHANGED <<data, speed, clock, fitted, t0, t1, a_t0, a_i,
                   predicted, results, classifier_data, stdout, wvars, tvars>>

\* analyze, line 190: clf.predict raises; nothing catches it
PredictRaises ==
    /\ pc = "predict"
    /\ a_i < Len(TestX)
    /\ LET chunk == Slice(TestX, a_i, a_i + ChunkSize)
       IN  calls' = calls \o <<CallPredict(clf_i, chunk), Call("raise", clf_i)>>
    /\ pc' = "raised"
    /\ UNCHANGED <<data, speed, clock, clf_i, fitted, t0, t1, a_t0, a_i,
                   predicted, results, classifier_data, stdout, wvars, tvars>>

\* analyze, lines 192-210: the loop is over; the metrics are computed, printed
\* and returned
AnalyzeFinish ==
    /\ pc = "predict"
    /\ a_i >= Len(TestX)
    /\ LET testing_time == clock - a_t0
           accuracy == accuracy_score(TestY, predicted)
       IN  /\ results' = [testing_time |-> testing_time, accuracy |-> accuracy]
           /\ stdout' = stdout \o
                  << Line("Classifier", "", classifiers[clf_i]),
                     Line("Training time", "", t1 - t0),
                     Line("Testing time", "", testing_time),
                     Line("Confusion matrix", "", confusion_matrix(TestY, predicted)),
                     Line("Accuracy", "", accuracy) >>
    /\ calls' = Append(calls, Call("analyze returns", clf_i))
    /\ pc' = "analyzed"
    /\ UNCHANGED <<data, speed, clock, clf_i, fitted, t0, t1, a_t0, a_i,
                   predicted, classifier_data, wvars, tvars>>

\* analyze, lines 197-200: on an empty test set the metrics of the library may
\* refuse the empty arrays instead of returning NaN; nothing catches that
MetricsRaise ==
    /\ pc = "predict"
    /\ a_i >= Len(TestX)
    /\ Len(TestX) = 0
    /\ results' = [testing_time |-> clock - a_t0]
    /\ stdout' = stdout \o
           << Line("Classifier", "", classifiers[clf_i]),
              Line("Training time", "", t1 - t0),
              Line("Testing time", "", clock - a_t0) >>
    /\ calls' = Append(calls, Call("raise", clf_i))
    /\ pc' = "raised"
    /\ UNCHANGED <<data, speed, clock, clf_i, fitted, t0, t1, a_t0, a_i,
                   predicted, classifier_data, wvars, tvars>>

\* main, lines 120-123: the row of the classifier is stored, and the loop goes on
StoreRow ==
    /\ pc = "analyzed"
    /\ classifier_data' =
          [k \in DOMAIN classifier_data \cup {classifiers[clf_i]} |->
              IF k = classifiers[clf_i]
              THEN [training_time |-> t1 - t0,
                    testing_time |-> results.testing_time,
                    accuracy |-> results.accuracy]
              ELSE classifier_data[k]]
    /\ clf_i' = clf_i + 1
    /\ pc' = "loop"
    /\ UNCHANGED <<data, speed, clock, fitted, t0, t1, a_t0, a_i, predicted,
                   results, stdout, calls, wvars, tvars>>

\* print_website is called inside the loop, after every classifier
PrintWebsite_in_loop ==
    /\ pc = "loop"
    /\ clf_i > 1
    /\ calls' = Append(calls, Call("print_website", 0))
    /\ stdout' = stdout \o print_website(classifier_data)
    /\ pc' = IF clf_i > Len(classifiers) THEN "done" ELSE "loop"
    /\ UNCHANGED <<data, speed, clock, clf_i, fitted, t0, t1, a_t0, a_i,
                   predicted, results, classifier_data, wvars, tvars>>

\* main, line 125: print_website(classifier_data)
PrintWebsite ==
    /\ pc = "loop"
    /\ clf_i > Len(classifiers)
    /\ calls' = Append(calls, Call("print_website", 0))
    /\ stdout' = stdout \o print_website(classifier_data)
    /\ pc' = "done"
    /\ UNCHANGED <<data, speed, clock, clf_i, fitted, t0, t1, a_t0, a_i,
                   predicted, results, classifier_data, wvars, tvars>>

NextMain ==
    \/ GetData
    \/ Fit
    \/ FitRaises
    \/ AnalyzeStart
    \/ PredictChunk
    \/ PredictRaises
    \/ AnalyzeFinish
    \/ MetricsRaise
    \/ StoreRow
    \/ PrintWebsite

SpecMain == InitMain /\ [][NextMain]_vars

-----------------------------------------------------------------------------
(* python.py: analyze on its own, for every test-set length up to MaxTestLen *)

InitAnalyze ==
    /\ pc = "analyze"
    /\ \E n \in 0..MaxTestLen : data = get_data(n)
    /\ speed \in 1..MaxSlowdown
    /\ clf_i \in 1..Len(classifiers)
    /\ fitted = {clf_i}
    /\ t0 = 0
    /\ t1 = FitCost(clf_i)
    /\ clock = t1
    /\ a_t0 = 0 /\ a_i = 0
    /\ predicted = <<>>
    /\ results = [k \in {} |-> 0]
    /\ classifier_data = [k \in {} |-> 0]
    /\ stdout = <<>>
    /\ calls = <<>>
    /\ InitOther

NextAnalyze ==
    \/ AnalyzeStart
    \/ PredictChunk
    \/ PredictRaises
    \/ AnalyzeFinish
    \/ MetricsRaise

SpecAnalyze == InitAnalyze /\ [][NextAnalyze]_vars

-----------------------------------------------------------------------------
(* python.py: print_website on its own, for every dict of up to MaxKeys rows *)

AccValues == {Frac(899, 1000), Frac(9, 10), Frac(901, 1000)}
TestTimeValues == {4999, 5000, 5001}
TrainTimeValues == {6000}

WebRows == [accuracy : AccValues, training_time : TrainTimeValues,
            testing_time : TestTimeValues]

InitPrint ==
    /\ pc = "print_website"
    /\ \E keys \in SUBSET ClfNames :
          /\ Cardinality(keys) <= MaxKeys
          /\ web_data \in [keys -> WebRows]
    /\ data = [test |-> [X |-> <<>>, y |-> <<>>]]
    /\ speed = 1
    /\ clock = 0
    /\ clf_i = 0
    /\ fitted = {}
    /\ t0 = 0 /\ t1 = 0 /\ a_t0 = 0 /\ a_i = 0
    /\ predicted = <<>>
    /\ results = [k \in {} |-> 0]
    /\ classifier_data = [k \in {} |-> 0]
    /\ stdout = <<>>
    /\ calls = <<>>
    /\ tpc = "off" /\ seed = 0 /\ InitTrainVars

\* print_website(web_data), lines 128-164
PrintWebsiteOf ==
    /\ pc = "print_website"
    /\ stdout' = stdout \o print_website(web_data)
    /\ pc' = "printed"
    /\ UNCHANGED <<data, speed, clock, clf_i, fitted, t0, t1, a_t0, a_i,
                   predicted, results, classifier_data, calls, wvars, tvars>>

NextPrint == PrintWebsiteOf

SpecPrint == InitPrint /\ [][NextPrint]_vars

-----------------------------------------------------------------------------
(* Properties of python.py *)

IsDriverCall(c) == c.kind \in {"get_data", "fit", "analyze", "analyze returns", "print_website"}
IsPredictCall(c) == c.kind = "predict"
IsFitCall(c) == c.kind = "fit"

\* the calls of main in the order a run without exception makes them
DriverCallAt(j) ==
    IF j = 1 THEN Call("get_data", 0)
    ELSE IF j = 3 * Len(classifiers) + 2 THEN Call("print_website", 0)
    ELSE LET c == ((j - 2) \div 3) + 1
             m == (j - 2) % 3
         IN  Call(IF m = 0 THEN "fit" ELSE IF m = 1 THEN "analyze" ELSE "analyze returns", c)

\* C1: main is a strictly sequential driver: the calls made so far are always a
\* prefix of get_data, then for each of the 12 classifiers in list order fit,
\* analyze, return of analyze, then print_website; every predict of a classifier
\* lies between its fit and the return of its analyze; a finished run has made
\* them all, each exactly once.
C1_SequentialDriver ==
    LET d == SelectSeq(calls, IsDriverCall)
    IN  /\ Len(classifiers) = 12
        /\ Len(d) <= 3 * Len(classifiers) + 2
        /\ \A j \in 1..Len(d) : d[j] = DriverCallAt(j)
        /\ \A k \in 1..Len(calls) :
              calls[k].kind = "predict" =>
                 d[Len(SelectSeq(SubSeq(calls, 1, k), IsDriverCall))]
                    = Call("analyze", calls[k].clf)
        /\ pc = "done" =>
              /\ Len(d) = 3 * Len(classifiers) + 2
              /\ DOMAIN classifier_data = ClfNames

C1_Witness == pc = "done" /\ Len(TestX) > ChunkSize

\* C4: no failure is retried or partially handled: a raise of fit or predict is
\* the last call of the run, the run has stopped for good, no classifier was
\* fitted twice, none after the failing one was fitted or analyzed, and
\* print_website was not called and no table was printed.
C4_NoRetryNoPartialHandling ==
    /\ \A k \in 1..Len(calls) :
          calls[k].kind = "raise" =>
             /\ k = Len(calls)
             /\ pc = "raised"
             /\ calls[k].clf = clf_i
             /\ Len(SelectSeq(calls, IsFitCall)) = clf_i
             /\ \A j \in 1..Len(calls) :
                   /\ calls[j].kind # "print_website"
                   /\ calls[j].clf <= clf_i
             /\ \A j \in 1..Len(stdout) :
                   stdout[j].kind \notin {"<table><thead>", "<tr>", "</table>"}
    /\ \A j, k \in 1..Len(calls) :
          calls[j].kind = "fit" /\ calls[k].kind = "fit" /\ calls[j].clf = calls[k].clf
             => j = k
    /\ pc = "raised" =>
          /\ Len(calls) > 0 /\ calls[Len(calls)].kind = "raise"
          /\ ~ ENABLED NextMain

C4_Witness ==
    /\ pc = "raised"
    /\ clf_i = 3
    /\ calls[Len(calls) - 1].kind = "predict"
    /\ DOMAIN classifier_data = {classifiers[1], classifiers[2]}

\* C5: analyze predicts the test set in consecutive, non-overlapping chunks of
\* 128 of which only the last may be shorter, every test example is passed to
\* predict exactly once, and `predicted` has the length of the test set with
\* predicted[i] the prediction for example i, whatever the length n >= 0.
C5_ChunksCoverTestSetOnce ==
    LET P == SelectSeq(calls, IsPredictCall)
        n == Len(TestX)
        done == pc = "analyzed" \/ (pc = "predict" /\ a_i >= n)
    IN  /\ \A j \in 1..Len(P) :
              /\ Len(P[j].xs) \in 1..ChunkSize
              /\ j < Len(P) => Len(P[j].xs) = ChunkSize
              /\ P[j].xs = SubSeq(TestX, (j - 1) * ChunkSize + 1,
                                  (j - 1) * ChunkSize + Len(P[j].xs))
        /\ pc \in {"predict", "analyzed"} =>
              /\ Len(predicted) = Min(a_i, n)
              /\ \A k \in 1..Len(predicted) : predicted[k] = PredictOne(clf_i, TestX[k])
        /\ done =>
              /\ Len(predicted) = n
              /\ Len(predicted) = Len(TestY)
              /\ n = 0 => Len(P) = 0
              /\ n > 0 => (Len(P) - 1) * ChunkSize + Len(P[Len(P)].xs) = n
        /\ pc = "analyzed" =>
              results.accuracy =
                 Frac(Cardinality({k \in 1..n : PredictOne(clf_i, TestX[k]) = TestY[k]}), n)

C5_Witness ==
    /\ pc = "analyzed"
    /\ Len(TestX) = 2 * ChunkSize + 3
    /\ Len(predicted) = Len(TestX)

C5_WitnessEmpty == pc = "analyzed" /\ Len(TestX) = 0

\* C6: print_website prints one header, then one row per key of the dict in
\* ascending order of the name, then one footer; the accuracy cell of a row is
\* marked class="danger" exactly when the accuracy of that row is below 0.9, the
\* testing-time cell exactly when the testing time of that row is above 5 s, and
\* the training-time cell never, whatever the rows before it.
C6_TableRows ==
    pc = "printed" =>
       LET keys == DOMAIN web_data
           n == Cardinality(keys)
           row(r) == SubSeq(stdout, 2 + 6 * (r - 1), 1 + 6 * r)
           name(r) == row(r)[2].value
       IN  /\ Len(stdout) = 6 * n + 3
           /\ stdout[1].kind = "<table><thead>"
           /\ stdout[Len(stdout) - 1].kind = "</tbody>"
           /\ stdout[Len(stdout)].kind = "</table>"
           /\ \A j \in 2..(Len(stdout) - 2) :
                 stdout[j].kind \notin {"<table><thead>", "</tbody>", "</table>"}
           /\ {name(r) : r \in 1..n} = keys
           /\ \A r \in 1..(n - 1) : StrLess(name(r), name(r + 1))
           /\ \A r \in 1..n :
                 LET d == web_data[name(r)]
                 IN  /\ row(r)[1].kind = "<tr>"
                     /\ row(r)[2].kind = "td_name"
                     /\ row(r)[3] = Line("td_accuracy",
                                         IF FracLess(d.accuracy, 9, 10)
                                         THEN "class=\"danger\"" ELSE "",
                                         d.accuracy)
                     /\ row(r)[4] = Line("td_training_time", "", d.training_time)
                     /\ row(r)[5] = Line("td_testing_time",
                                         IF d.testing_time > 5000
                                         THEN "class=\"danger\"" ELSE "",
                                         d.testing_time)
                     /\ row(r)[6].kind = "</tr>"
           /\ sorted(ClfNames) =
                 << "AdaBoost", "CNN", "Decision Tree", "Gradient Boosting",
                    "NN 500:200", "NN 500:200 dropout", "Naive Bayes",
                    "Random Forest", "Random Forest 2", "adj. SVM", "k nn",
                    "linear SVM" >>

\* a danger row is followed by a row without any mark
C6_Witness ==
    /\ pc = "printed"
    /\ Len(stdout) = 15
    /\ stdout[4].attr = danger_msg /\ stdout[6].attr = danger_msg
    /\ stdout[10].attr = "" /\ stdout[12].attr = ""

-----------------------------------------------------------------------------
(* train.py: configuration *)

nb_epoch == 200
data_augmentation_off == FALSE
data_augmentation == TRUE
load_smoothed_labels == FALSE
model_type == "dense"

\* gtsdb.n_classes
nb_classes == 100

-----------------------------------------------------------------------------
(* train.py: arrays and the library calls *)

PixelValues == {0, 255}
Dtypes == {"uint8", "float32"}

\* a numpy array of images: the value of pixel k is raw[k] / 255^divs
Array(dtype, raw) == [dtype |-> dtype, raw |-> raw, divs |-> 0]

\* gtsdb.load_data(): n images, labels counted from `first`
load_data(dtype, raw, first) ==
    [x_train |-> Array(dtype, raw),
     y_train |-> [k \in 1..Len(raw) |-> (first + k - 1) % nb_classes]]

\* a.astype(dtype) without a copy when the dtype is already the one asked for
astype_nocopy(h, ref, dtype) ==
    IF h[ref].dtype = dtype THEN [heap |-> h, ref |-> ref]
    ELSE [heap |-> Append(h, [h[ref] EXCEPT !.dtype = dtype]), ref |-> Len(h) + 1]

\* a.astype(dtype): always a new array object (copy=True is the default)
astype(h, ref, dtype) ==
    [heap |-> Append(h, [h[ref] EXCEPT !.dtype = dtype]), ref |-> Len(h) + 1]

\* a /= 255: in place, on the object a is bound to
idiv255(h, ref) == [h EXCEPT ![ref].divs = @ + 1]

\* np_utils.to_categorical(y, nb_classes)
to_categorical(y, n) ==
    [k \in 1..Len(y) |-> [c \in 1..n |-> IF c - 1 = y[k] THEN 1 ELSE 0]]

\* the metrics of epoch e (1-based) of training course s, in 1e-5 units
ValAccOf(s, e) ==
    CASE s = 1 -> 300 * e + 7
      [] s = 2 -> IF e <= 103 THEN (e \div 4) * 1000 + 5 ELSE 25005 - (e - 103) * 15
      [] OTHER -> (e * e * 7919 * s + e * 104729 + 611 * s) % 100001
AccOf(s, e) == (ValAccOf(s, e) * 9) \div 10 + (e % 10)
LossOf(s, e) == (250000 \div e) + ((s * e) % 10)

\* ModelCheckpoint with mode='min'
monitor_op_min(current, best) == best = -1 \/ current < best

\* ModelCheckpoint(monitor="val_acc"): mode 'auto' on a monitor with "acc" in
\* its name compares with np.greater, from best = -Inf
monitor_op(current, best) == current > best

\* "%0.4f" % v: v rounded to 4 decimals (a tie goes to the even digit)
Fmt4(v) ==
    LET q == v \div 10
        r == v % 10
    IN  IF r < 5 THEN q
        ELSE IF r > 5 THEN q + 1
        ELSE IF q % 2 = 0 THEN q ELSE q + 1

\* zip(a, b, c): as long as the shortest
zip3(a, b, c) ==
    [k \in 1..Min(Len(a), Min(Len(b), Len(c))) |-> <<a[k], b[k], c[k]>>]

\* the accuracy column is written twice
HistoryRows_acc_twice(h) ==
    LET d == zip3(h.loss, h.acc, h.acc)
    IN  [k \in 1..Len(d) |-> <<Fmt4(d[k][1]), Fmt4(d[k][2]), Fmt4(d[k][3])>>]

\* lines 136-145: the rows of history.csv
HistoryRows(h) ==
    LET d == zip3(h.loss, h.acc, h.val_acc)
    IN  [k \in 1..Len(d) |-> <<Fmt4(d[k][1]), Fmt4(d[k][2]), Fmt4(d[k][3])>>]

CsvHeader == <<"loss", "acc", "val_acc">>

\* lines 96-100: the arguments of model.fit
NoAugFitArgs == [x |-> X_train, y |-> Y_train, val_x |-> X_val, val_y |-> Y_val]

\* lines 125-130: the arrays datagen.flow draws from, and validation_data
AugFitArgs == [x |-> X_train, y |-> Y_train, val_x |-> X_train, val_y |-> Y_train]

-----------------------------------------------------------------------------
(* train.py: the script, step by step *)

InitTrain ==
    /\ tpc = "load"
    /\ seed \in 1..MaxSeed
    /\ InitTrainVars
    /\ InitWeb
    /\ pc = "off"
    /\ data = [test |-> [X |-> <<>>, y |-> <<>>]]
    /\ speed = 1
    /\ clock = 0
    /\ clf_i = 0
    /\ fitted = {}
    /\ t0 = 0 /\ t1 = 0 /\ a_t0 = 0 /\ a_i = 0
    /\ predicted = <<>>
    /\ results = [k \in {} |-> 0]
    /\ classifier_data = [k \in {} |-> 0]
    /\ stdout = <<>>
    /\ calls = <<>>

\* the commented-out train_test_split of lines 39-41: the last image is held out
LoadData_train_test_split ==
    /\ tpc = "load"
    /\ \E n \in 1..MaxImages, dtype \in Dtypes, first \in {0, nb_classes - 1} :
          \E raw \in [1..n -> PixelValues] :
             LET d == load_data(dtype, raw, first)
             IN  /\ heap' = << d.x_train,
                              [d.x_train EXCEPT !.raw = SubSeq(raw, 1, n - 1)],
                              [d.x_train EXCEPT !.raw = SubSeq(raw, n, n)] >>
                 /\ x_loaded' = 1
                 /\ X_train' = 2
                 /\ X_val' = 3
                 /\ y_train' = SubSeq(d.y_train, 1, n - 1)
                 /\ y_val' = SubSeq(d.y_train, n, n)
    /\ tpc' = "categorical"
    /\ UNCHANGED <<seed, Y_train, Y_val, model, fit_args, epoch, cb_best, history,
                   files, writes, mvars, wvars>>

\* lines 36-38: the data set is loaded; X_val and y_val are bound to the objects
\* X_train and y_train are bound to
LoadData ==
    /\ tpc = "load"
    /\ \E n \in 1..MaxImages, dtype \in Dtypes, first \in {0, nb_classes - 1} :
          \E raw \in [1..n -> PixelValues] :
             LET d == load_data(dtype, raw, first)
             IN  /\ heap' = <<d.x_train>>
                 /\ x_loaded' = 1
                 /\ X_train' = 1
                 /\ X_val' = 1
                 /\ y_train' = d.y_train
                 /\ y_val' = d.y_train
    /\ tpc' = "categorical"
    /\ UNCHANGED <<seed, Y_train, Y_val, model, fit_args, epoch, cb_best, history,
                   files, writes, mvars, wvars>>

\* lines 44-51: the labels become one-hot matrices
ToCategorical ==
    /\ tpc = "categorical"
    /\ Y_train' = IF load_smoothed_labels
                  THEN [k \in 1..Len(y_train) |-> [c \in 1..nb_classes |-> 0]]
                  ELSE to_categorical(y_train, nb_classes)
    /\ Y_val' = to_categorical(y_val, nb_classes)
    /\ tpc' = "model"
    /\ UNCHANGED <<seed, heap, x_loaded, X_train, X_val, y_train, y_val, model,
                   fit_args, epoch, cb_best, history, files, writes, mvars, wvars>>

\* lines 55-85: the model is created and compiled
CreateModel ==
    /\ tpc = "model"
    /\ model_type \in {"sequential", "dense"}
    /\ model' = 0
    /\ tpc' = "astype"
    /\ UNCHANGED <<seed, heap, x_loaded, X_train, X_val, y_train, y_val, Y_train,
                   Y_val, fit_args, epoch, cb_best, history, files, writes, mvars,
                   wvars>>

\* lines 87-88: X_train and X_val are rebound to float32 arrays
Astype ==
    /\ tpc = "astype"
    /\ LET a == astype(heap, X_train, "float32")
           b == astype(a.heap, X_val, "float32")
       IN  /\ X_train' = a.ref
           /\ X_val' = b.ref
           /\ heap' = b.heap
    /\ tpc' = "scale"
    /\ UNCHANGED <<seed, x_loaded, y_train, y_val, Y_train, Y_val, model,
                   fit_args, epoch, cb_best, history, files, writes, mvars, wvars>>

\* lines 90-91: both arrays are divided by 255 in place
Scale ==
    /\ tpc = "scale"
    /\ heap' = idiv255(idiv255(heap, X_train), X_val)
    /\ tpc' = "fit"
    /\ UNCHANGED <<seed, x_loaded, X_train, X_val, y_train, y_val, Y_train, Y_val,
                   model, fit_args, epoch, cb_best, history, files, writes, mvars,
                   wvars>>

\* lines 94-130: model.fit or model.fit_generator is called
StartFit ==
    /\ tpc = "fit"
    /\ fit_args' = IF data_augmentation THEN AugFitArgs ELSE NoAugFitArgs
    /\ epoch' = 0
    /\ cb_best' = -1
    /\ history' = NoHistory
    /\ tpc' = "epochs"
    /\ UNCHANGED <<seed, heap, x_loaded, X_train, X_val, y_train, y_val, Y_train,
                   Y_val, model, files, writes, mvars, wvars>>

\* one epoch of the fit call: the model is trained on fit_args.x, validated on
\* fit_args.val_x, the metrics are appended to the history and, under data
\* augmentation, the ModelCheckpoint callback runs
Epoch ==
    /\ tpc = "epochs"
    /\ epoch < nb_epoch
    /\ LET e == epoch + 1
           current == ValAccOf(seed, e)
           save == data_augmentation /\ monitor_op(current, cb_best)
       IN  /\ epoch' = e
           /\ model' = e
           /\ history' = [loss |-> Append(history.loss, LossOf(seed, e)),
                          acc |-> Append(history.acc, AccOf(seed, e)),
                          val_acc |-> Append(history.val_acc, current)]
           /\ cb_best' = IF save THEN current ELSE cb_best
           /\ files' = IF save THEN [files EXCEPT !.checkpoint = <<e>>] ELSE files
           /\ writes' = IF save THEN Append(writes, "checkpoint") ELSE writes
    /\ UNCHANGED <<tpc, seed, heap, x_loaded, X_train, X_val, y_train, y_val,
                   Y_train, Y_val, fit_args, mvars, wvars>>

\* the fit call raises in the middle of an epoch; nothing catches it
EpochRaises ==
    /\ tpc = "epochs"
    /\ epoch < nb_epoch
    /\ tpc' = "raised"
    /\ UNCHANGED <<seed, heap, x_loaded, X_train, X_val, y_train, y_val, Y_train,
                   Y_val, model, fit_args, epoch, cb_best, history, files, writes,
                   mvars, wvars>>

\* the fit call returns after nb_epoch epochs
FitReturns ==
    /\ tpc = "epochs"
    /\ epoch = nb_epoch
    /\ tpc' = IF data_augmentation THEN "history" ELSE "save"
    /\ UNCHANGED <<seed, heap, x_loaded, X_train, X_val, y_train, y_val, Y_train,
                   Y_val, model, fit_args, epoch, cb_best, history, files, writes,
                   mvars, wvars>>

\* lines 136-149: history.csv is written
WriteHistory ==
    /\ tpc = "history"
    /\ files' = [files EXCEPT !.history_csv = << <<CsvHeader>> \o HistoryRows(history) >>]
    /\ writes' = Append(writes, "history.csv")
    /\ tpc' = "save"
    /\ UNCHANGED <<seed, heap, x_loaded, X_train, X_val, y_train, y_val, Y_train,
                   Y_val, model, fit_args, epoch, cb_best, history, mvars, wvars>>

\* line 150: model.save('gtsdb.h5')
SaveModel ==
    /\ tpc = "save"
    /\ files' = [files EXCEPT !.gtsdb_h5 = <<model>>]
    /\ writes' = Append(writes, "gtsdb.h5")
    /\ tpc' = "done"
    /\ UNCHANGED <<seed, heap, x_loaded, X_train, X_val, y_train, y_val, Y_train,
                   Y_val, model, fit_args, epoch, cb_best, history, mvars, wvars>>

NextTrain ==
    \/ LoadData
    \/ ToCategorical
    \/ CreateModel
    \/ Astype
    \/ Scale
    \/ StartFit
    \/ Epoch
    \/ EpochRaises
    \/ FitReturns
    \/ WriteHistory
    \/ SaveModel

SpecTrain == InitTrain /\ [][NextTrain]_vars

-----------------------------------------------------------------------------
(* Properties of train.py *)

Count(seq, x) == Cardinality({j \in 1..Len(seq) : seq[j] = x})

\* C2: a run of train.py that completes has written history.csv and gtsdb.h5,
\* each once, the model file last, after all the epochs and after the CSV; no
\* run that has not completed has written the model file.
C2_BothArtifactsWritten ==
    /\ tpc = "done" =>
          /\ files.history_csv # <<>>
          /\ files.gtsdb_h5 # <<>>
          /\ epoch = nb_epoch
          /\ Count(writes, "history.csv") = 1
          /\ Count(writes, "gtsdb.h5") = 1
          /\ writes[Len(writes)] = "gtsdb.h5"
    /\ tpc # "done" => Count(writes, "gtsdb.h5") = 0 /\ files.gtsdb_h5 = <<>>

C2_Witness ==
    /\ tpc = "done"
    /\ writes[Len(writes)] = "gtsdb.h5"
    /\ writes[Len(writes) - 1] = "history.csv"

\* the "%0.4f" string r spells the value v rounded to 4 decimals
Rounds(r, v) == 10 * r - v \in -5..5

\* C3: history.csv is the header row (loss, acc, val_acc) followed by one row
\* per epoch, nb_epoch rows in epoch order, row k holding the loss, the acc and
\* the val_acc of epoch k, each written with 4 decimals.
C3_HistoryCsvRows ==
    tpc \in {"save", "done"} =>
       /\ files.history_csv # <<>>
       /\ LET f == files.history_csv[1]
          IN  /\ Len(f) = nb_epoch + 1
              /\ f[1] = <<"loss", "acc", "val_acc">>
              /\ \A k \in 1..nb_epoch :
                    /\ Len(f[k + 1]) = 3
                    /\ Rounds(f[k + 1][1], LossOf(seed, k))
                    /\ Rounds(f[k + 1][2], AccOf(seed, k))
                    /\ Rounds(f[k + 1][3], ValAccOf(seed, k))

C3_Witness ==
    /\ tpc = "done"
    /\ Len(files.history_csv[1]) = nb_epoch + 1
    /\ \E k \in 1..nb_epoch :
          /\ files.history_csv[1][k + 1][2] # files.history_csv[1][k + 1][3]
          /\ 10 * files.history_csv[1][k + 1][3] # ValAccOf(seed, k)

Trained == {"epochs", "history", "save", "done", "raised"}

\* C7: the checkpoint file is written at the end of an epoch only when the
\* val_acc of that epoch is above the val_acc of every earlier epoch, so after
\* one or more epochs it holds the model of the first epoch with the highest
\* val_acc so far; gtsdb.h5 holds the model as it is after the last epoch.
C7_CheckpointIsBestSoFar ==
    /\ epoch = 0 => files.checkpoint = <<>>
    /\ (tpc \in Trained /\ epoch >= 1) =>
          /\ files.checkpoint # <<>>
          /\ LET m == files.checkpoint[1]
                 val == history.val_acc
             IN  /\ m \in 1..epoch
                 /\ Len(val) = epoch
                 /\ \A j \in 1..epoch : val[j] <= val[m]
                 /\ \A j \in 1..(m - 1) : val[j] < val[m]
                 /\ cb_best = val[m]
                 /\ Count(writes, "checkpoint") =
                       Cardinality({e \in 1..epoch : \A j \in 1..(e - 1) : val[j] < val[e]})
    /\ tpc = "done" => files.gtsdb_h5 = <<nb_epoch>>

\* the last epoch is not the best one: the two files hold different models
C7_Witness ==
    /\ tpc = "done"
    /\ files.gtsdb_h5 # files.checkpoint
    /\ history.val_acc[nb_epoch] < history.val_acc[files.checkpoint[1]]
    /\ Count(writes, "checkpoint") > 1

\* the last epoch is the best one
C7_WitnessLastIsBest == tpc = "done" /\ files.gtsdb_h5 = files.checkpoint

\* the validation examples of a fit call are its training examples
SameExamples(a) ==
    /\ heap[a.val_x] = heap[a.x]
    /\ a.val_y = a.y
    /\ Len(heap[a.x].raw) = Len(heap[x_loaded].raw)
    /\ heap[a.x].raw = heap[x_loaded].raw
    /\ Len(a.y) = Len(heap[a.x].raw)

\* C8: the validation examples are exactly the training examples, with the
\* arguments of the fit call of the augmentation branch and with those of the
\* branch without augmentation: the same images, the same labels, none held out.
C8_ValidationIsTraining ==
    /\ tpc \in {"fit"} \cup Trained =>
          /\ SameExamples(NoAugFitArgs)
          /\ SameExamples(AugFitArgs)
    /\ tpc \in Trained =>
          /\ fit_args \in {NoAugFitArgs, AugFitArgs}
          /\ SameExamples(fit_args)

C8_Witness ==
    /\ tpc = "epochs"
    /\ epoch = 1
    /\ fit_args = AugFitArgs
    /\ Len(heap[fit_args.val_x].raw) = 2
    /\ Y_val[1] # Y_val[2]

\* C9: X_val is bound to the object X_train is bound to when the data is loaded,
\* astype gives each of them a new array, and each of the two is divided by 255
\* exactly once; the array load_data returned is never changed.
C9_ScaledOnce ==
    /\ tpc \in {"categorical", "model", "astype"} =>
          X_train = x_loaded /\ X_val = x_loaded
    /\ tpc \notin {"off", "load"} =>
          /\ heap[x_loaded].divs = 0
          /\ heap[x_loaded].dtype \in Dtypes
    /\ tpc \in {"scale", "fit"} \cup Trained =>
          /\ Cardinality({x_loaded, X_train, X_val}) = 3
          /\ heap[X_train].raw = heap[x_loaded].raw
          /\ heap[X_val].raw = heap[x_loaded].raw
          /\ heap[X_train].dtype = "float32"
          /\ heap[X_val].dtype = "float32"
          /\ heap[X_train].divs = (IF tpc = "scale" THEN 0 ELSE 1)
          /\ heap[X_val].divs = (IF tpc = "scale" THEN 0 ELSE 1)

C9_Witness ==
    /\ tpc = "fit"
    /\ heap[x_loaded].dtype = "float32"
    /\ heap[X_train].divs = 1
    /\ heap[X_val].divs = 1
    /\ heap[x_loaded].raw = <<255, 0>>

====
